---------------------------- MODULE Spec2Model ----------------------------
(***************************************************************************)
(* Reader for a non-resident NTFS attribute value                          *)
(* (src/attribute_value/non_resident.rs): the Data Run decoder             *)
(* (NtfsDataRuns), a single Data Run (NtfsDataRun), the stream state       *)
(* (StreamState) and the value reader (NtfsNonResidentAttributeValue).     *)
(*                                                                         *)
(* A u64 / i64 is kept at its full width as its 8 little-endian bytes, so  *)
(* that overflow, two's complement and sign extension are the code's.      *)
(***************************************************************************)
EXTENDS Integers, Sequences, FiniteSets

(***************************************************************************)
(* 64-bit integers as 8 little-endian bytes.                               *)
(***************************************************************************)

\* mem::size_of::<u64>() as u8
MAX_BYTE_COUNT == 8

Zero64 == <<0, 0, 0, 0, 0, 0, 0, 0>>

\* u64::MAX, i64::MAX, i64::MIN as byte patterns
U64_MAX == <<255, 255, 255, 255, 255, 255, 255, 255>>
I64_MAX == <<255, 255, 255, 255, 255, 255, 255, 127>>
I64_MIN == <<0, 0, 0, 0, 0, 0, 0, 128>>

\* A small natural number (below 2^24) as a u64.
U64(n) == <<n % 256, (n \div 256) % 256, (n \div 65536) % 256, 0, 0, 0, 0, 0>>

\* A u64 below 2^24 as a natural number.
Nat64(u) == u[1] + 256 * u[2] + 65536 * u[3]

\* a + b byte by byte: the 8 bytes of the sum, then the carry out.
AddBytes(a, b) ==
    LET s1 == a[1] + b[1]
        s2 == a[2] + b[2] + (s1 \div 256)
        s3 == a[3] + b[3] + (s2 \div 256)
        s4 == a[4] + b[4] + (s3 \div 256)
        s5 == a[5] + b[5] + (s4 \div 256)
        s6 == a[6] + b[6] + (s5 \div 256)
        s7 == a[7] + b[7] + (s6 \div 256)
        s8 == a[8] + b[8] + (s7 \div 256)
    IN  <<s1 % 256, s2 % 256, s3 % 256, s4 % 256,
          s5 % 256, s6 % 256, s7 % 256, s8 % 256, s8 \div 256>>

\* a - b byte by byte: the 8 bytes of the difference, then the borrow out
\* (-1 when a < b).
SubBytes(a, b) ==
    LET d1 == a[1] - b[1]
        d2 == a[2] - b[2] + (d1 \div 256)
        d3 == a[3] - b[3] + (d2 \div 256)
        d4 == a[4] - b[4] + (d3 \div 256)
        d5 == a[5] - b[5] + (d4 \div 256)
        d6 == a[6] - b[6] + (d5 \div 256)
        d7 == a[7] - b[7] + (d6 \div 256)
        d8 == a[8] - b[8] + (d7 \div 256)
    IN  <<d1 % 256, d2 % 256, d3 % 256, d4 % 256,
          d5 % 256, d6 % 256, d7 % 256, d8 % 256, d8 \div 256>>

\* a * c byte by byte, for a small factor c: the 8 bytes of the product,
\* then the carry out.
MulBytes(a, c) ==
    LET p1 == a[1] * c
        p2 == a[2] * c + (p1 \div 256)
        p3 == a[3] * c + (p2 \div 256)
        p4 == a[4] * c + (p3 \div 256)
        p5 == a[5] * c + (p4 \div 256)
        p6 == a[6] * c + (p5 \div 256)
        p7 == a[7] * c + (p6 \div 256)
        p8 == a[8] * c + (p7 \div 256)
    IN  <<p1 % 256, p2 % 256, p3 % 256, p4 % 256,
          p5 % 256, p6 % 256, p7 % 256, p8 % 256, p8 \div 256>>

Low64(r) == <<r[1], r[2], r[3], r[4], r[5], r[6], r[7], r[8]>>
Out64(r) == r[9]

wrapping_add(a, b) == Low64(AddBytes(a, b))

wrapping_sub(a, b) == Low64(SubBytes(a, b))

\* Option<u64>: <<>> is None, <<v>> is Some(v).  A checked operation is None
\* when its result r carries or borrows out of the 64 bits.
Checked(r) == IF Out64(r) # 0 THEN <<>> ELSE <<Low64(r)>>

checked_add(a, b) == Checked(AddBytes(a, b))

checked_sub(a, b) == Checked(SubBytes(a, b))

Saturating(r) == IF Out64(r) # 0 THEN Zero64 ELSE Low64(r)

saturating_sub(a, b) == Saturating(SubBytes(a, b))

\* i64::wrapping_neg
wrapping_neg(n) == wrapping_sub(Zero64, n)

\* Unsigned comparison a < b, a <= b.
Lt(a, b) == Out64(SubBytes(a, b)) # 0
Le(a, b) == ~Lt(b, a)

\* The sign of an i64: n >= 0.
NonNegative(n) == n[MAX_BYTE_COUNT] < 128

\* A small integer (|n| < 2^24) as an i64.
I64(n) == IF n >= 0 THEN U64(n) ELSE wrapping_neg(U64(-n))

\* u64::checked_mul by a factor that fits a u32 (here: below 2^16).
checked_mul(a, c) == Checked(MulBytes(a, c))

\* usize::min(len, n as usize) for a small len and a u64 n.
MinLen(k, n) == IF Lt(n, U64(k)) THEN Nat64(n) ELSE k


(***************************************************************************)
(* Results.  Result<T> is [ok |-> TRUE, value |-> v] or                    *)
(* [ok |-> FALSE, err |-> e]; an error is its kind and the values it names.*)
(***************************************************************************)

Ok(v) == [ok |-> TRUE, value |-> v]
Err(kind, info) == [ok |-> FALSE, err |-> [kind |-> kind, info |-> info]]

\* io::Error::new(io::ErrorKind::InvalidInput, ...) of an invalid seek
InvalidSeek == Err("Io", <<"InvalidInput">>)

\* The item of one iterator step: None, Some(Ok(run)) or Some(Err(e)).
ItemNone == [tag |-> "None"]
ItemOk(run) == [tag |-> "Ok", run |-> run]
ItemErr(e) == [tag |-> "Err", err |-> e]

(***************************************************************************)
(* The filesystem collaborator (crate::ntfs::Ntfs, crate::types::Lcn).     *)
(***************************************************************************)

\* Ntfs::cluster_size
cluster_size(ntfs) == ntfs.cluster_size

\* Lcn::checked_add(vcn): the signed delta added to the unsigned LCN; None
\* when the sum leaves the u64 range in either direction.
Lcn_checked_add(lcn, vcn) ==
    IF NonNegative(vcn) THEN checked_add(lcn, vcn)
    ELSE checked_sub(lcn, wrapping_neg(vcn))

\* Lcn::position: the absolute byte offset of a cluster (0 for LCN 0).
Lcn_position(lcn, ntfs) ==
    LET from(p) == IF p = <<>> THEN Err("LcnTooBig", <<lcn>>) ELSE Ok(p[1])
    IN  from(checked_mul(lcn, cluster_size(ntfs)))

(***************************************************************************)
(* NtfsDataRun                                                             *)
(***************************************************************************)

\* Mutant: the allocated size computed with a wrapping multiplication.
NtfsDataRun_new_wrapping(ntfs, lcn, cluster_count) ==
    LET from(position) ==
            IF ~position.ok THEN position
            ELSE Ok([position |-> position.value,
                     allocated_size |->
                         Low64(MulBytes(cluster_count, cluster_size(ntfs))),
                     stream_position |-> Zero64])
    IN  from(Lcn_position(lcn, ntfs))

NtfsDataRun_new(ntfs, lcn, cluster_count) ==
    LET from(position, allocated_size) ==
            IF ~position.ok THEN position
            ELSE IF allocated_size = <<>>
                 THEN Err("InvalidClusterCount", <<cluster_count>>)
            ELSE Ok([position |-> position.value,
                     allocated_size |-> allocated_size[1],
                     stream_position |-> Zero64])
    IN  from(Lcn_position(lcn, ntfs),
             checked_mul(cluster_count, cluster_size(ntfs)))

NtfsDataRun_allocated_size(run) == run.allocated_size

\* Option<u64>
NtfsDataRun_data_position(run) ==
    IF run.position # Zero64
       /\ Le(run.stream_position, NtfsDataRun_allocated_size(run))
    THEN <<wrapping_add(run.position, run.stream_position)>>
    ELSE <<>>

NtfsDataRun_remaining_len(run) ==
    saturating_sub(NtfsDataRun_allocated_size(run), run.stream_position)

(***************************************************************************)
(* NtfsDataRuns: the Data Run decoder.                                     *)
(* self = [ntfs, data, position, state], state = [offset, previous_lcn].   *)
(***************************************************************************)

NtfsDataRuns_new(ntfs, data, position) ==
    [ntfs |-> ntfs, data |-> data, position |-> position,
     state |-> [offset |-> 0, previous_lcn |-> Zero64]]

\* Mutant: the state handed in is dropped, the decoder starts like new().
NtfsDataRuns_from_state_anew(ntfs, data, position, state) ==
    [ntfs |-> ntfs, data |-> data, position |-> position,
     state |-> [offset |-> 0, previous_lcn |-> Zero64]]

NtfsDataRuns_from_state(ntfs, data, position, state) ==
    [ntfs |-> ntfs, data |-> data, position |-> position, state |-> state]

NtfsDataRuns_into_state(self) == self.state

NtfsDataRuns_position(self) ==
    wrapping_add(self.position, U64(self.state.offset))

\* Mutant: the byte count is not checked against MAX_BYTE_COUNT, the first 8
\* bytes of the field are kept.
read_variable_length_bytes_unchecked(self, cursor, byte_count) ==
    IF self.state.offset + cursor + byte_count > Len(self.data)
    THEN Err("Io", <<"UnexpectedEof">>)
    ELSE LET byte(i) == IF i <= byte_count
                        THEN self.data[self.state.offset + cursor + i]
                        ELSE 0
         IN  Ok([buf |-> <<byte(1), byte(2), byte(3), byte(4),
                           byte(5), byte(6), byte(7), byte(8)>>,
                 cursor |-> cursor + byte_count])

\* `cursor` counts the bytes read so far from &data[state.offset..].
\* The value is the 8-byte buffer and the cursor after the read.
read_variable_length_bytes(self, cursor, byte_count) ==
    IF byte_count > MAX_BYTE_COUNT
    THEN Err("InvalidByteCountInDataRunHeader",
             <<NtfsDataRuns_position(self), byte_count, MAX_BYTE_COUNT>>)
    ELSE IF self.state.offset + cursor + byte_count > Len(self.data)
         THEN Err("Io", <<"UnexpectedEof">>)
    ELSE LET byte(i) == IF i <= byte_count
                        THEN self.data[self.state.offset + cursor + i]
                        ELSE 0
         IN  Ok([buf |-> <<byte(1), byte(2), byte(3), byte(4),
                           byte(5), byte(6), byte(7), byte(8)>>,
                 cursor |-> cursor + byte_count])

\* Mutant: the right shift is logical, as on a u64: the bits shifted out
\* are replaced with zeros.
SignExtend_zero_fill(buf, byte_count) ==
    LET unused_bytes == (MAX_BYTE_COUNT - byte_count) % MAX_BYTE_COUNT
        top == MAX_BYTE_COUNT - unused_bytes
        byte(i) == IF i <= top THEN buf[i] ELSE 0
    IN  <<byte(1), byte(2), byte(3), byte(4),
          byte(5), byte(6), byte(7), byte(8)>>

\* integer.wrapping_shl(unused_bits).wrapping_shr(unused_bits) on an i64:
\* both shifts take the amount modulo 64, and the right shift is arithmetic.
SignExtend(buf, byte_count) ==
    LET unused_bytes == (MAX_BYTE_COUNT - byte_count) % MAX_BYTE_COUNT
        top == MAX_BYTE_COUNT - unused_bytes
        byte(i) == IF i <= top THEN buf[i]
                   ELSE IF buf[top] >= 128 THEN 255 ELSE 0
    IN  <<byte(1), byte(2), byte(3), byte(4),
          byte(5), byte(6), byte(7), byte(8)>>

read_variable_length_signed_integer(self, cursor, byte_count) ==
    LET from(buf) ==
            IF ~buf.ok THEN buf
            ELSE Ok([integer |-> SignExtend(buf.value.buf, byte_count),
                     cursor |-> buf.value.cursor])
    IN  from(read_variable_length_bytes(self, cursor, byte_count))

read_variable_length_unsigned_integer(self, cursor, byte_count) ==
    LET from(buf) ==
            IF ~buf.ok THEN buf
            ELSE Ok([integer |-> buf.value.buf, cursor |-> buf.value.cursor])
    IN  from(read_variable_length_bytes(self, cursor, byte_count))

\* Mutant: the end marker is stepped over like a record of one byte.
end_of_data_runs_past_marker(self) == [self EXCEPT !.state.offset = @ + 1]

\* "Ensure that any further call uses the fast path": the decoder after it
\* has read the end marker.
end_of_data_runs(self) == [self EXCEPT !.state.offset = Len(self.data)]

\* Iterator::next: the decoder after the call and the item it returns.
NtfsDataRuns_next(self) ==
    LET header == self.data[self.state.offset + 1]
        cluster_count_byte_count == header % 16
        vcn_byte_count == header \div 16
        \* from `self.state.previous_lcn = lcn` on
        with_lcn(cluster_count, vcn, lcn) ==
            LET bytes_to_advance == vcn.value.cursor
                advanced == [self EXCEPT !.state.previous_lcn = lcn,
                                         !.state.offset = @ + bytes_to_advance]
                with_data_run(data_run) ==
                    IF ~data_run.ok
                    THEN [self |-> advanced, item |-> ItemErr(data_run.err)]
                    ELSE [self |-> advanced, item |-> ItemOk(data_run.value)]
            IN  with_data_run(NtfsDataRun_new(self.ntfs, lcn,
                                              cluster_count.value.integer))
        \* from "Turn the read VCN into an absolute LCN" on
        with_vcn(cluster_count, vcn) ==
            LET checked(lcn) ==
                    IF lcn = <<>>
                    THEN [self |-> self,
                          item |-> ItemErr(Err("InvalidVcnInDataRunHeader",
                                               <<NtfsDataRuns_position(self),
                                                 vcn.value.integer,
                                                 self.state.previous_lcn>>).err)]
                    ELSE with_lcn(cluster_count, vcn, lcn[1])
            IN  IF ~vcn.ok
                THEN [self |-> self, item |-> ItemErr(vcn.err)]
                ELSE checked(Lcn_checked_add(self.state.previous_lcn,
                                             vcn.value.integer))
        \* from the read of the VCN on
        with_cluster_count(cluster_count) ==
            IF ~cluster_count.ok
            THEN [self |-> self, item |-> ItemErr(cluster_count.err)]
            ELSE with_vcn(cluster_count,
                          read_variable_length_signed_integer(
                              self, cluster_count.value.cursor, vcn_byte_count))
    IN  IF self.state.offset >= Len(self.data)
        THEN [self |-> self, item |-> ItemNone]
        ELSE IF header = 0
        THEN [self |-> end_of_data_runs(self), item |-> ItemNone]
        ELSE with_cluster_count(
                 read_variable_length_unsigned_integer(
                     self, 1, cluster_count_byte_count))

(***************************************************************************)
(* The external byte source `fs: Read + Seek`.                             *)
(* fs = [touched]: whether the reader operation in progress has called     *)
(* it.  One use of it by NtfsDataRun::read has the                         *)
(* outcome io = [seek_ok, read_ok, n]: whether fs.seek and fs.read         *)
(* succeed, and how many bytes fs.read transfers (0 .. the slice length).  *)
(***************************************************************************)

\* The byte the volume holds at an absolute byte offset (never 0, so that
\* it differs from the zero fill of a sparse Data Run).
Disk(p) == ((p[1] + 7 * p[2]) % 255) + 1

\* The n bytes the volume holds from an absolute byte offset on.
RECURSIVE DiskBytes(_, _)
DiskBytes(p, n) ==
    IF n = 0 THEN <<>>
    ELSE IF n = 1 THEN <<Disk(p)>>
    ELSE DiskBytes(p, n \div 2)
         \o DiskBytes(wrapping_add(p, U64(n \div 2)), n - (n \div 2))

\* n zero bytes.
RECURSIVE Zeros(_)
Zeros(n) ==
    IF n = 0 THEN <<>>
    ELSE IF n = 1 THEN <<0>>
    ELSE Zeros(n \div 2) \o Zeros(n - (n \div 2))

(***************************************************************************)
(* SeekFrom = [kind |-> "Start" | "Current" | "End", n |-> 64 bits]        *)
(***************************************************************************)

SeekFrom_Start(n) == [kind |-> "Start", n |-> n]
SeekFrom_Current(n) == [kind |-> "Current", n |-> n]
SeekFrom_End(n) == [kind |-> "End", n |-> n]

\* attribute_value::seek_contiguous: the new stream position of a contiguous
\* range of the given length, or the invalid-seek error.
seek_contiguous(stream_position, length, pos) ==
    LET base_pos == IF pos.kind = "End" THEN length ELSE stream_position
        from(new_pos) == IF new_pos = <<>> THEN InvalidSeek ELSE Ok(new_pos[1])
    IN  IF pos.kind = "Start" THEN Ok(pos.n)
        ELSE IF NonNegative(pos.n) THEN from(checked_add(base_pos, pos.n))
        ELSE from(checked_sub(base_pos, wrapping_neg(pos.n)))

(***************************************************************************)
(* NtfsReadSeek for NtfsDataRun                                            *)
(***************************************************************************)

\* Mutant: a sparse Data Run is read from the source like any other.
NtfsDataRun_read_from_source(self, fs, buf_len, io) ==
    LET bytes_to_read == MinLen(buf_len, NtfsDataRun_remaining_len(self))
        transferred == IF io.n <= bytes_to_read THEN io.n ELSE bytes_to_read
    IN  IF NtfsDataRun_remaining_len(self) = Zero64
        THEN [self |-> self, fs |-> fs, result |-> Ok(<<>>)]
        ELSE IF ~io.seek_ok \/ ~io.read_ok
        THEN [self |-> self, fs |-> [fs EXCEPT !.touched = TRUE],
              result |-> Err("Io", <<"Source">>)]
        ELSE [self |-> [self EXCEPT !.stream_position =
                                        wrapping_add(@, U64(transferred))],
              fs |-> [fs EXCEPT !.touched = TRUE],
              result |-> Ok(DiskBytes(wrapping_add(self.position,
                                                   self.stream_position),
                                      transferred))]

\* read into a slice of buf_len bytes: the run and the source afterwards,
\* and Ok(the bytes transferred) or the source's error.
NtfsDataRun_read(self, fs, buf_len, io) ==
    LET advance(n) == [self EXCEPT !.stream_position = wrapping_add(@, U64(n))]
        \* the bytes fs.read transfers into a slice of bytes_to_read bytes
        transferred(bytes_to_read) ==
            IF io.n <= bytes_to_read THEN io.n ELSE bytes_to_read
        from_source(bytes_read) ==
            [self |-> advance(bytes_read),
             fs |-> [fs EXCEPT !.touched = TRUE],
             result |-> Ok(DiskBytes(NtfsDataRun_data_position(self)[1],
                                     bytes_read))]
        with_slice(bytes_to_read) ==
            IF self.position = Zero64
            THEN \* This is a sparse Data Run.
                 [self |-> advance(bytes_to_read), fs |-> fs,
                  result |-> Ok(Zeros(bytes_to_read))]
            ELSE IF ~io.seek_ok \/ ~io.read_ok
            THEN [self |-> self, fs |-> [fs EXCEPT !.touched = TRUE],
                  result |-> Err("Io", <<"Source">>)]
            ELSE from_source(transferred(bytes_to_read))
    IN  IF NtfsDataRun_remaining_len(self) = Zero64
        THEN [self |-> self, fs |-> fs, result |-> Ok(<<>>)]
        ELSE with_slice(MinLen(buf_len, NtfsDataRun_remaining_len(self)))

\* Mutant: a Data Run with "real" data also moves the source to the new
\* position.
NtfsDataRun_seek_through_source(self, fs, pos) ==
    LET length == NtfsDataRun_allocated_size(self)
        moved == IF self.position = Zero64 THEN fs
                 ELSE [fs EXCEPT !.touched = TRUE]
        from(r) ==
            IF r.ok
            THEN [self |-> [self EXCEPT !.stream_position = r.value],
                  fs |-> moved, result |-> r]
            ELSE [self |-> self, fs |-> fs, result |-> r]
    IN  from(seek_contiguous(self.stream_position, length, pos))

\* Mutant: the distance is taken as the new local position, also when it is
\* relative to the current one.
NtfsDataRun_seek_absolute(self, fs, pos) ==
    [self |-> [self EXCEPT !.stream_position = pos.n],
     fs |-> fs, result |-> Ok(pos.n)]

NtfsDataRun_seek(self, fs, pos) ==
    LET length == NtfsDataRun_allocated_size(self)
        from(r) ==
            IF r.ok
            THEN [self |-> [self EXCEPT !.stream_position = r.value],
                  fs |-> fs, result |-> r]
            ELSE [self |-> self, fs |-> fs, result |-> r]
    IN  from(seek_contiguous(self.stream_position, length, pos))

NtfsDataRun_stream_position(self) == self.stream_position

(***************************************************************************)
(* StreamState = [stream_data_run, stream_position, data_size];            *)
(* stream_data_run is <<>> (None) or <<run>> (Some(run)).                  *)
(***************************************************************************)

StreamState_new(data_size) ==
    [stream_data_run |-> <<>>, stream_position |-> Zero64, data_size |-> data_size]

StreamState_data_position(self) ==
    IF self.stream_data_run = <<>> THEN <<>>
    ELSE NtfsDataRun_data_position(self.stream_data_run[1])

StreamState_data_size(self) == self.data_size

StreamState_stream_position(self) == self.stream_position

StreamState_set_stream_data_run(self, stream_data_run) ==
    [self EXCEPT !.stream_data_run = <<stream_data_run>>]

StreamState_set_stream_position(self, stream_position) ==
    [self EXCEPT !.stream_position = stream_position]

\* Mutant: the target computed with wrapping arithmetic, never refused.
simplify_seek_wrapping(self, pos, data_size) ==
    CASE pos.kind = "Start" -> Ok(SeekFrom_Start(pos.n))
      [] pos.kind = "End" -> Ok(SeekFrom_Start(wrapping_add(data_size, pos.n)))
      [] pos.kind = "Current" ->
            Ok(SeekFrom_Start(wrapping_add(StreamState_stream_position(self),
                                           pos.n)))

simplify_seek(self, pos, data_size) ==
    LET from(bytes_to_seek) ==
            IF bytes_to_seek # <<>>
            THEN Ok(SeekFrom_Start(bytes_to_seek[1]))
            ELSE InvalidSeek
    IN  CASE pos.kind = "Start" -> Ok(SeekFrom_Start(pos.n))
          [] pos.kind = "End" ->
                IF NonNegative(pos.n)
                THEN from(checked_add(data_size, pos.n))
                ELSE from(checked_sub(data_size, wrapping_neg(pos.n)))
          [] pos.kind = "Current" ->
                IF NonNegative(pos.n)
                THEN IF checked_add(StreamState_stream_position(self),
                                    pos.n) # <<>>
                     THEN Ok(SeekFrom_Current(pos.n))
                     ELSE InvalidSeek
                ELSE from(checked_sub(StreamState_stream_position(self),
                                      wrapping_neg(pos.n)))

\* Mutant: a target ahead of the stream position is taken as the distance
\* from it.
optimize_seek_absolute(self, pos, data_size) ==
    LET from(simple) ==
            IF ~simple.ok THEN simple
            ELSE IF simple.value.kind = "Start"
                    /\ Le(StreamState_stream_position(self), simple.value.n)
                    /\ NonNegative(simple.value.n)
                 THEN Ok(SeekFrom_Current(simple.value.n))
            ELSE simple
    IN  from(simplify_seek(self, pos, data_size))

\* Mutant: the request is simplified, a target ahead is not made relative.
optimize_seek_not_rewritten(self, pos, data_size) ==
    simplify_seek(self, pos, data_size)

optimize_seek(self, pos, data_size) ==
    LET relative(simple, n_from_current) ==
            IF n_from_current # <<>>
               /\ NonNegative(n_from_current[1])   \* i64::try_from succeeds
            THEN Ok(SeekFrom_Current(n_from_current[1]))
            ELSE simple
        from(simple) ==
            IF ~simple.ok THEN simple
            ELSE IF simple.value.kind = "Start"
                 THEN relative(simple,
                               checked_sub(simple.value.n,
                                           StreamState_stream_position(self)))
            ELSE simple
    IN  from(simplify_seek(self, pos, data_size))

\* Mutant: the budget taken from the declared size alone, whatever the
\* stream position.
remaining_data_size_from_start(self) == self.data_size

\* Mutant: the budget computed with a wrapping subtraction.
remaining_data_size_wrapping(self) ==
    wrapping_sub(self.data_size, self.stream_position)

\* self.data_size.saturating_sub(self.stream_position) of read_data_run
remaining_data_size(self) == saturating_sub(self.data_size, self.stream_position)

\* Mutant: the slice not clamped to the remaining data size.
slice_len_unclamped(call, remaining) == call.len - call.bytes_read

\* end - start of read_data_run: the length of the slice buf[start..end]
slice_len(call, remaining) == MinLen(call.len - call.bytes_read, remaining)

\* call = [len, bytes_read, buf, ...]: the caller's buffer length, *bytes_read
\* and the bytes written to buf[..bytes_read] so far.
\* The result is Ok(whether we read some bytes) or the error.
read_data_run(self, fs, call, io) ==
    LET data_run == self.stream_data_run[1]
        unread == [self |-> self, fs |-> fs, call |-> call, result |-> Ok(FALSE)]
        with_bytes(r, bytes_read_in_data_run) ==
            [self |-> [self EXCEPT
                          !.stream_data_run = <<r.self>>,
                          !.stream_position =
                              wrapping_add(@, U64(bytes_read_in_data_run))],
             fs |-> r.fs,
             call |-> [call EXCEPT
                          !.bytes_read = @ + bytes_read_in_data_run,
                          !.buf = @ \o r.result.value],
             result |-> Ok(TRUE)]
        after_read(r) ==
            IF ~r.result.ok
            THEN [self |-> self, fs |-> r.fs, call |-> call,
                  result |-> r.result]
            ELSE with_bytes(r, Len(r.result.value))
        with_remaining(remaining) ==
            IF remaining = Zero64 THEN unread
            ELSE after_read(NtfsDataRun_read(data_run, fs,
                                             slice_len(call, remaining), io))
    IN  IF self.stream_data_run = <<>> THEN unread
        ELSE IF Le(NtfsDataRun_allocated_size(data_run),
                   NtfsDataRun_stream_position(data_run))
        THEN unread
        ELSE with_remaining(remaining_data_size(self))

\* Mutant: the seek is handed to the current Data Run whatever the distance
\* left.
seek_data_run_unchecked(self, fs, bytes_to_seek, bytes_left_to_seek) ==
    LET data_run == self.stream_data_run[1]
        pos == IF bytes_to_seek.kind = "Start"
               THEN SeekFrom_Start(bytes_left_to_seek)
               ELSE SeekFrom_Current(bytes_left_to_seek)
        after_seek(r) ==
            IF r.result.ok
            THEN [self |-> [self EXCEPT !.stream_data_run = <<r.self>>],
                  fs |-> r.fs,
                  bytes_left_to_seek |-> bytes_left_to_seek,
                  result |-> Ok(TRUE)]
            ELSE [self |-> self, fs |-> r.fs,
                  bytes_left_to_seek |-> bytes_left_to_seek,
                  result |-> r.result]
    IN  IF self.stream_data_run = <<>>
        THEN [self |-> self, fs |-> fs,
              bytes_left_to_seek |-> bytes_left_to_seek, result |-> Ok(FALSE)]
        ELSE after_seek(NtfsDataRun_seek(data_run, fs, pos))

\* The result is Ok(whether the final seek position is reached) or the error.
seek_data_run(self, fs, bytes_to_seek, bytes_left_to_seek) ==
    LET data_run == self.stream_data_run[1]
        pos == IF bytes_to_seek.kind = "Start"
               THEN SeekFrom_Start(bytes_left_to_seek)
               ELSE SeekFrom_Current(bytes_left_to_seek)
        after_seek(r) ==
            IF r.result.ok
            THEN [self |-> [self EXCEPT !.stream_data_run = <<r.self>>],
                  fs |-> r.fs,
                  bytes_left_to_seek |-> bytes_left_to_seek,
                  result |-> Ok(TRUE)]
            ELSE [self |-> self, fs |-> r.fs,
                  bytes_left_to_seek |-> bytes_left_to_seek,
                  result |-> r.result]
        with_remaining(remaining_len) ==
            IF Lt(bytes_left_to_seek, remaining_len)
            THEN after_seek(NtfsDataRun_seek(data_run, fs, pos))
            ELSE \* We can skip the entire Data Run.
                 [self |-> self, fs |-> fs,
                  bytes_left_to_seek |->
                      wrapping_sub(bytes_left_to_seek, remaining_len),
                  result |-> Ok(FALSE)]
    IN  IF self.stream_data_run = <<>>
        THEN [self |-> self, fs |-> fs,
              bytes_left_to_seek |-> bytes_left_to_seek, result |-> Ok(FALSE)]
        ELSE with_remaining(NtfsDataRun_remaining_len(data_run))

(***************************************************************************)
(* NtfsNonResidentAttributeValue                                           *)
(* self = [ntfs, data, position, stream_data_runs, stream_state]           *)
(***************************************************************************)

\* Mutant: the first Data Run is left for the first read or seek to pull.
NtfsNonResidentAttributeValue_new_lazy(ntfs, data, position, data_size) ==
    Ok([ntfs |-> ntfs, data |-> data, position |-> position,
        stream_data_runs |-> NtfsDataRuns_new(ntfs, data, position),
        stream_state |-> StreamState_new(data_size)])

NtfsNonResidentAttributeValue_new(ntfs, data, position, data_size) ==
    LET stream_state == StreamState_new(data_size)
        from(first) ==
            LET built(state) ==
                    [ntfs |-> ntfs, data |-> data, position |-> position,
                     stream_data_runs |-> first.self, stream_state |-> state]
            IN  CASE first.item.tag = "None" -> Ok(built(stream_state))
                  [] first.item.tag = "Err" ->
                        [ok |-> FALSE, err |-> first.item.err]
                  [] first.item.tag = "Ok" ->
                        Ok(built(StreamState_set_stream_data_run(
                                     stream_state, first.item.run)))
    IN  from(NtfsDataRuns_next(NtfsDataRuns_new(ntfs, data, position)))

data_position(self) == StreamState_data_position(self.stream_state)

\* Mutant: a copy of the reader's own decoder, wherever its cursor is.
data_runs_from_stream(self) == self.stream_data_runs

data_runs(self) == NtfsDataRuns_new(self.ntfs, self.data, self.position)

len(self) == StreamState_data_size(self.stream_state)

is_empty(self) == len(self) = Zero64

stream_position(self) == StreamState_stream_position(self.stream_state)

\* Mutant: the position of the reader's own decoder, which moves with its
\* cursor.
position_of_stream_data_runs(self) ==
    NtfsDataRuns_position(self.stream_data_runs)

position(self) == self.position

\* The result is Ok(whether we got another Data Run) or the decode error.
next_data_run(self) ==
    LET from(n) ==
            LET pulled == [self EXCEPT !.stream_data_runs = n.self]
            IN  CASE n.item.tag = "None" ->
                        [self |-> pulled, result |-> Ok(FALSE)]
                  [] n.item.tag = "Err" ->
                        [self |-> pulled,
                         result |-> [ok |-> FALSE, err |-> n.item.err]]
                  [] n.item.tag = "Ok" ->
                        [self |-> [pulled EXCEPT !.stream_state =
                                      StreamState_set_stream_data_run(
                                          @, n.item.run)],
                         result |-> Ok(TRUE)]
    IN  from(NtfsDataRuns_next(self.stream_data_runs))

\* One pass through the body of the `while bytes_read < buf.len()` loop of
\* read.  done tells whether the call returns after it, with `result`.
read_iteration(self, fs, call, io) ==
    LET after_next(n) ==
            IF ~n.result.ok
            THEN [self |-> n.self, fs |-> fs, call |-> call,
                  done |-> TRUE, result |-> n.result]
            ELSE IF n.result.value
            THEN \* We got another Data Run, so read again.
                 [self |-> n.self, fs |-> fs, call |-> call,
                  done |-> FALSE, result |-> Ok(call.bytes_read)]
            ELSE \* We read everything we could.
                 [self |-> n.self, fs |-> fs, call |-> call,
                  done |-> TRUE, result |-> Ok(call.bytes_read)]
        after_read(r) ==
            IF ~r.result.ok
            THEN [self |-> [self EXCEPT !.stream_state = r.self],
                  fs |-> r.fs, call |-> r.call,
                  done |-> TRUE, result |-> r.result]
            ELSE IF r.result.value
            THEN \* We read something, so check the loop condition again.
                 [self |-> [self EXCEPT !.stream_state = r.self],
                  fs |-> r.fs, call |-> r.call,
                  done |-> FALSE, result |-> Ok(r.call.bytes_read)]
            ELSE after_next(next_data_run(
                                [self EXCEPT !.stream_state = r.self]))
    IN  after_read(read_data_run(self.stream_state, fs, call, io))

\* The `while bytes_left_to_seek > 0` loop of seek.
RECURSIVE seek_loop(_, _, _, _)
seek_loop(self, fs, pos, bytes_left_to_seek) ==
    LET after_next(s, n) ==
            IF ~n.result.ok
            THEN [self |-> n.self, fs |-> s.fs, result |-> n.result]
            ELSE IF n.result.value
            THEN seek_loop(n.self, s.fs, pos, s.bytes_left_to_seek)
            ELSE \* We seeked as far as we could.
                 [self |-> n.self, fs |-> s.fs, result |-> Ok(TRUE)]
        after_seek(s) ==
            IF ~s.result.ok
            THEN [self |-> [self EXCEPT !.stream_state = s.self],
                  fs |-> s.fs, result |-> s.result]
            ELSE IF s.result.value
            THEN \* We have reached our final seek position.
                 [self |-> [self EXCEPT !.stream_state = s.self],
                  fs |-> s.fs, result |-> Ok(TRUE)]
            ELSE after_next(s, next_data_run(
                                   [self EXCEPT !.stream_state = s.self]))
    IN  IF bytes_left_to_seek = Zero64
        THEN [self |-> self, fs |-> fs, result |-> Ok(TRUE)]
        ELSE after_seek(seek_data_run(self.stream_state, fs, pos,
                                      bytes_left_to_seek))

\* Mutant: the stream state is reset, the decoder is left where it is.
rewind_stream_state_only(self) ==
    [self EXCEPT !.stream_state = StreamState_new(len(self))]

\* "Rewind to the very beginning" of seek.
rewind(self) ==
    [self EXCEPT !.stream_data_runs = data_runs(self),
                 !.stream_state = StreamState_new(len(self))]

\* seek: the reader and the source afterwards, and Ok(the new stream
\* position) or the error.
NtfsNonResidentAttributeValue_seek(self, fs, pos) ==
    LET positioned(walked, final) ==
            [self |-> [walked.self EXCEPT !.stream_state =
                          StreamState_set_stream_position(@, final)],
             fs |-> walked.fs,
             result |-> Ok(final)]
        after_loop(opt, walked) ==
            IF ~walked.result.ok
            THEN [self |-> walked.self, fs |-> walked.fs,
                  result |-> walked.result]
            ELSE IF opt.value.kind = "Start"
            THEN positioned(walked, opt.value.n)
            ELSE positioned(walked,
                            wrapping_add(stream_position(walked.self),
                                         opt.value.n))
        from(opt) ==
            IF ~opt.ok THEN [self |-> self, fs |-> fs, result |-> opt]
            ELSE IF opt.value.kind = "Start"
            THEN after_loop(opt, seek_loop(rewind(self), fs, opt.value,
                                           opt.value.n))
            ELSE after_loop(opt, seek_loop(self, fs, opt.value, opt.value.n))
    IN  from(optimize_seek(self.stream_state, pos, len(self)))

(***************************************************************************)
(* The state machine: one reader over one run list, driven by read and     *)
(* seek calls; and one decoder of a run list, driven by next calls.        *)
(***************************************************************************)

VARIABLES
    value,      \* Result of NtfsNonResidentAttributeValue::new, then the reader
    fs,         \* the external byte source
    pc,         \* "idle", "reading" (inside read's loop) or "failed" (no reader)
    call,       \* the read call in progress or last made
    last,       \* the call last made on the reader, with its request if it is
                \* a seek, and its result (Ok(0) while a read is in its loop)
    hist,       \* history of the calls made on the reader since construction:
                \* only reads so far (clean) and their total, a call has failed
    it,         \* a decoder of the run list (NtfsDataRuns)
    it_item     \* history of the next() calls made on the decoder

vars == <<value, fs, pc, call, last, hist, it, it_item>>

\* Bounds of the model.
MaxBuf == 2            \* longest buffer handed to read
MaxSeek == 3           \* largest small seek distance
MaxPos == 5            \* small stream positions go up to here
MaxDataSize == 3       \* largest small declared data size
MaxStall == 2          \* passes of read's loop in a row that change nothing
MaxNextCalls == 4      \* next() calls made on the decoder
MaxRecords == 3        \* records of a generated run list
RunListPosition == 1000

ClusterSizes == {2}

\* Run lists.  A record is a header byte (low nibble: width of the cluster
\* count, high nibble: width of the LCN delta) and the two fields.
RunLists ==
    { <<17, 1, 1, 17, 1, 1, 0, 17, 1, 1>>,       \* two runs, end, trailing bytes
      <<17, 1, 1, 17, 1, 255>>,                  \* run, sparse run (LCN 0)
      <<17, 1, 1, 9>>,                           \* run, then a width of 9
      <<17, 1, 1, 24, 0, 0, 0, 0, 0, 0, 0, 128, 1, 17, 1, 1>>,
                                                 \* run, size overflow, run
      <<17, 0, 1, 17, 1, 1>>,                    \* empty run, run
      <<17, 2, 1, 17, 1, 1>>,                    \* run of two clusters, run
      <<>>,                                      \* no run
      <<9>> }                                    \* a width of 9 at once

DataSizes == {U64(n) : n \in 0..MaxDataSize} \cup {U64_MAX}

BufLens == 0..MaxBuf

SmallDistances == {I64(n) : n \in (0 - MaxSeek)..MaxSeek}

SeekRequests ==
    {SeekFrom_Start(n) : n \in {U64(k) : k \in 0..MaxSeek} \cup {I64_MIN, U64_MAX}}
    \cup {SeekFrom_Current(n) : n \in SmallDistances \cup {I64_MIN}}
    \cup {SeekFrom_End(n) : n \in SmallDistances \cup {I64_MIN}}

IoOutcomes ==
    {[seek_ok |-> TRUE, read_ok |-> TRUE, n |-> n] : n \in 0..MaxBuf}
    \cup {[seek_ok |-> FALSE, read_ok |-> TRUE, n |-> 0],
          [seek_ok |-> TRUE, read_ok |-> FALSE, n |-> 0]}

NoCall == [len |-> 0, bytes_read |-> 0, buf |-> <<>>, start |-> Zero64,
           sought_end |-> FALSE, stalled |-> 0]

\* The history once a call other than a read has been made or a read has
\* failed; failed tells whether some call has returned an error.
Unclean(failed) == [clean |-> FALSE, total |-> 0, failed |-> failed]

\* The reader and the decoder right after construction over a run list.
Constructed(ntfs, data, data_size) ==
    /\ value = NtfsNonResidentAttributeValue_new(ntfs, data, U64(RunListPosition),
                                                 data_size)
    /\ it = NtfsDataRuns_new(ntfs, data, U64(RunListPosition))
    /\ fs = [touched |-> FALSE]
    /\ pc = IF value.ok THEN "idle" ELSE "failed"
    /\ call = NoCall
    /\ last = [op |-> "new", result |-> IF value.ok THEN Ok(Zero64) ELSE value]
    /\ hist = [clean |-> TRUE, total |-> 0, failed |-> FALSE]
    /\ it_item = [item |-> ItemNone, before |-> it.state, calls |-> 0,
                  ended |-> FALSE]

Init ==
    \E c \in ClusterSizes, data \in RunLists, data_size \in DataSizes :
        Constructed([cluster_size |-> c], data, data_size)

\* read is called with a buffer of n bytes.
Read(n) ==
    /\ pc = "idle"
    /\ call' = [len |-> n, bytes_read |-> 0, buf |-> <<>>,
                start |-> stream_position(value.value),
                sought_end |-> (/\ last.op = "seek"
                                /\ last.result.ok
                                /\ Le(len(value.value), last.result.value)),
                stalled |-> 0]
    /\ fs' = [fs EXCEPT !.touched = FALSE]
    /\ last' = [op |-> "read", result |-> Ok(0)]
    /\ IF n = 0
       THEN /\ pc' = "idle"
            /\ hist' = Unclean(hist.failed)
       ELSE /\ pc' = "reading"
            /\ hist' = hist
    /\ UNCHANGED <<value, it, it_item>>

\* One pass of read's loop; the call returns when the pass ends the loop or
\* the buffer is full after it.
ReadLoop(io) ==
    /\ pc = "reading"
    /\ call.stalled < MaxStall
    /\ \E r \in {read_iteration(value.value, fs, call, io)} :
         \E returns \in {r.done \/ r.call.bytes_read >= r.call.len} :
           /\ value' = Ok(r.self)
           /\ fs' = r.fs
           /\ call' = [r.call EXCEPT
                          !.stalled = IF ~returns /\ r.self = value.value
                                                  /\ r.call = call
                                      THEN @ + 1 ELSE 0]
           /\ pc' = IF returns THEN "idle" ELSE "reading"
           /\ last' = IF returns THEN [op |-> "read", result |-> r.result]
                      ELSE last
           /\ hist' = IF ~returns THEN hist
                      ELSE IF hist.clean /\ r.result.ok
                           THEN [hist EXCEPT !.total = @ + r.result.value]
                      ELSE Unclean(hist.failed \/ ~r.result.ok)
    /\ UNCHANGED <<it, it_item>>

\* The target of a seek request, <<>> when it is invalid.
SeekTarget(self, pos) ==
    LET base == CASE pos.kind = "Start" -> Zero64
                  [] pos.kind = "Current" -> stream_position(self)
                  [] pos.kind = "End" -> len(self)
    IN  IF pos.kind = "Start" THEN <<pos.n>>
        ELSE IF NonNegative(pos.n) THEN checked_add(base, pos.n)
        ELSE checked_sub(base, wrapping_neg(pos.n))

\* The requests followed: every invalid one, every one with a big distance,
\* and those that land on a small position.
Followed(self, pos) ==
    LET small(t) == IF t = <<>> THEN TRUE ELSE Le(t[1], U64(MaxPos))
    IN  IF pos.n = I64_MIN \/ pos = SeekFrom_Start(U64_MAX) THEN TRUE
        ELSE small(SeekTarget(self, pos))

Seek(pos) ==
    /\ pc = "idle"
    /\ Followed(value.value, pos)
    /\ \E r \in {NtfsNonResidentAttributeValue_seek(
                     value.value, [fs EXCEPT !.touched = FALSE], pos)} :
           /\ value' = Ok(r.self)
           /\ fs' = r.fs
           /\ last' = [op |-> "seek", pos |-> pos, result |-> r.result]
           /\ hist' = Unclean(hist.failed \/ ~r.result.ok)
    /\ call' = NoCall
    /\ UNCHANGED <<pc, it, it_item>>

Next ==
    \/ \E n \in BufLens : Read(n)
    \/ \E io \in IoOutcomes : ReadLoop(io)
    \/ \E pos \in SeekRequests : Seek(pos)

Spec == Init /\ [][Next]_vars

(***************************************************************************)
(* The decoder alone, over run lists put together from records.            *)
(***************************************************************************)

Records ==
    { <<17, 1, 1>>,                              \* 1 cluster, LCN + 1
      <<17, 2, 255>>,                            \* 2 clusters, LCN - 1
      <<1, 3>>,                                  \* 3 clusters, no delta
      <<0>>,                                     \* end marker
      <<33, 16, 5>>,                             \* truncated: a 2-byte delta cut
      <<9>>,                                     \* a width of 9
      <<145>>,                                   \* a delta width of 9
      <<24, 0, 0, 0, 0, 0, 0, 0, 128, 1>>,       \* 2^63 clusters, LCN + 1
      <<129, 1, 0, 0, 0, 0, 0, 0, 0, 128>>,      \* 1 cluster, LCN - 2^63
      <<129, 1, 255, 255, 255, 255, 255, 255, 255, 127>> }
                                                 \* 1 cluster, LCN + 2^63 - 1

RECURSIVE Concat(_)
Concat(s) == IF s = <<>> THEN <<>> ELSE Head(s) \o Concat(Tail(s))

RecordLists ==
    {Concat(s) : s \in UNION {[1..k -> Records] : k \in 0..MaxRecords}}

DecInit ==
    \E c \in ClusterSizes, data \in RecordLists :
        Constructed([cluster_size |-> c], data, Zero64)

\* next() is called on the decoder.
ItNext ==
    /\ it_item.calls < MaxNextCalls
    /\ \E n \in {NtfsDataRuns_next(it)} :
           /\ it' = n.self
           /\ it_item' = [item |-> n.item, before |-> it.state,
                          calls |-> it_item.calls + 1,
                          ended |-> (it_item.ended \/ n.item.tag = "None")]
    /\ UNCHANGED <<value, fs, pc, call, last, hist>>

DecNext == ItNext

DecSpec == DecInit /\ [][DecNext]_vars

(***************************************************************************)
(* What the properties below speak of.                                     *)
(***************************************************************************)

\* The Data Runs a decoder yields from its cursor on, up to the end of the
\* run list or the first record that fails to decode.
RECURSIVE RunsFrom(_)
RunsFrom(dec) ==
    LET n == NtfsDataRuns_next(dec)
    IN  IF n.item.tag = "Ok" THEN <<n.item.run>> \o RunsFrom(n.self) ELSE <<>>

\* Whether every record from the decoder's cursor on decodes, up to the end
\* of the run list.
RECURSIVE Decodes(_)
Decodes(dec) ==
    LET n == NtfsDataRuns_next(dec)
    IN  CASE n.item.tag = "None" -> TRUE
          [] n.item.tag = "Err" -> FALSE
          [] n.item.tag = "Ok" -> Decodes(n.self)

Runs(self) == RunsFrom(data_runs(self))

RECURSIVE SumAllocated(_)
SumAllocated(runs) ==
    IF runs = <<>> THEN Zero64
    ELSE wrapping_add(NtfsDataRun_allocated_size(Head(runs)),
                      SumAllocated(Tail(runs)))

\* The total allocated size of the runs of the reader's run list.
AllocatedTotal(self) == SumAllocated(Runs(self))

\* The smaller of two u64.
Min64(a, b) == IF Lt(b, a) THEN b ELSE a

\* read's loop run to its end against a source that always succeeds and
\* fills the slice it is given.
RECURSIVE read_loop(_, _, _)
read_loop(self, src, c) ==
    LET r == read_iteration(self, src, c,
                            [seek_ok |-> TRUE, read_ok |-> TRUE, n |-> c.len])
    IN  IF c.bytes_read >= c.len
        THEN [self |-> self, call |-> c, result |-> Ok(c.bytes_read)]
        ELSE IF r.done
        THEN [self |-> r.self, call |-> r.call, result |-> r.result]
        ELSE read_loop(r.self, r.fs, r.call)

\* One read call with a buffer of n bytes against such a source.
ReadFully(self, n) ==
    read_loop(self, [touched |-> FALSE], [NoCall EXCEPT !.len = n])

\* A reader freshly constructed over the run list and data size of self.
Fresh(self) ==
    NtfsNonResidentAttributeValue_new(self.ntfs, self.data, self.position,
                                      len(self)).value

\* A read call has returned (pc = "idle") and `last` is its result.
ReadReturned == pc = "idle" /\ last.op = "read"

(***************************************************************************)
(* Properties of the reader (Spec).                                        *)
(***************************************************************************)

\* C1 as stated: from a freshly constructed reader, after reads with
\* non-empty buffers that all succeed, once a read returns 0 the byte counts
\* returned add up to len().
ReadsSumToLen ==
    (ReadReturned /\ hist.clean /\ last.result = Ok(0))
        => U64(hist.total) = len(value.value)

\* C1 amended: ... the byte counts returned add up to the smaller of len()
\* and the total allocated size of the runs; so to len() whenever the declared
\* data size does not exceed what the runs allocate.
ReadsSumToLenOrAllocated ==
    (ReadReturned /\ hist.clean /\ last.result = Ok(0))
        => U64(hist.total) = Min64(len(value.value), AllocatedTotal(value.value))

\* Reads of at most MaxBuf bytes have added up to a len() above MaxBuf, which
\* the runs allocate, and the next read has returned 0.
ReadsSumToLenWitness ==
    /\ ReadReturned /\ hist.clean /\ last.result = Ok(0)
    /\ hist.total > MaxBuf
    /\ U64(hist.total) = len(value.value)
    /\ Le(len(value.value), AllocatedTotal(value.value))

\* The reader of the example: a cluster size of 512, one run of one cluster
\* and a data_size of 100; and its first read, with a buffer of 1000 bytes.
ExampleReader ==
    NtfsNonResidentAttributeValue_new([cluster_size |-> 512], <<17, 1, 1>>,
                                      U64(RunListPosition), U64(100)).value

ExampleRead == ReadFully(ExampleReader, 1000)

\* C2: a read never returns bytes beyond data_size: having started at stream
\* position p it has transferred at most max(0, data_size - p) bytes, however
\* much the runs allocate; and from a fresh reader whose runs allocate at
\* least data_size, reads that succeed return exactly the smaller of the
\* buffer length and data_size - p (so data_size for a buffer that long, and
\* then 0).  In the example the first read returns 100, the next one 0.
ReadWithinDataSize ==
    /\ last.op = "new"
          => /\ ExampleRead.result = Ok(100)
             /\ Len(ExampleRead.call.buf) = 100
             /\ ReadFully(ExampleRead.self, 1000).result = Ok(0)
    /\ last.op = "read"
          => Le(U64(call.bytes_read),
                saturating_sub(len(value.value), call.start))
    /\ (ReadReturned /\ last.result.ok) => last.result.value = call.bytes_read
    /\ (ReadReturned /\ hist.clean
           /\ Le(len(value.value), AllocatedTotal(value.value)))
          => call.bytes_read
                = MinLen(call.len, saturating_sub(len(value.value), call.start))

\* A read with room left in its buffer, after runs that allocate more than
\* data_size, has returned the bytes up to data_size, inside a run.
ReadWithinDataSizeWitness ==
    /\ ReadReturned /\ hist.clean /\ last.result.ok
    /\ call.bytes_read > 0
    /\ call.bytes_read < call.len
    /\ call.start # Zero64
    /\ Lt(len(value.value), AllocatedTotal(value.value))
    /\ wrapping_add(call.start, U64(call.bytes_read)) = len(value.value)

\* A read that directly follows a successful seek to an offset >= len() has
\* returned.
ReadAfterSeekToEnd == ReadReturned /\ call.sought_end

\* C3 as stated: seeking to an offset >= len() and then reading returns 0
\* bytes and no error, whatever the earlier history.
ReadAtEndReturnsZero == ReadAfterSeekToEnd => last.result = Ok(0)

\* C3 amended: ... on a reader whose run list decodes without error.
ReadAtEndReturnsZeroIfDecodes ==
    (ReadAfterSeekToEnd /\ Decodes(data_runs(value.value)))
        => last.result = Ok(0)

\* After reads and seeks, a seek past len() on a reader with runs, then a
\* read with a non-empty buffer that has returned 0 without touching the
\* source.
ReadAtEndWitness ==
    /\ ReadAfterSeekToEnd /\ Decodes(data_runs(value.value))
    /\ call.len > 0
    /\ last.result = Ok(0)
    /\ Lt(len(value.value), call.start)
    /\ Lt(call.start, AllocatedTotal(value.value))
    /\ ~fs.touched

\* The bytes that reading the whole value in one call from a fresh reader
\* puts into the buffer: the buffer has len() bytes, or, where len() is
\* beyond what the runs allocate, one byte more than they allocate.
Sequential(self) ==
    ReadFully(Fresh(self),
              MinLen(Nat64(AllocatedTotal(self)) + 1, len(self))).call.buf

\* The bytes got run by run, from the reader self on: for each run, a seek
\* to the logical offset `start` where the run starts, then a read of the
\* part of the run below len().  A seek that fails marks the result with -1.
RECURSIVE Piecewise(_, _, _)
Piecewise(self, runs, start) ==
    LET s == NtfsNonResidentAttributeValue_seek(self, [touched |-> FALSE],
                                                SeekFrom_Start(start))
        sub == MinLen(Nat64(NtfsDataRun_allocated_size(Head(runs))),
                      saturating_sub(len(self), start))
        r == ReadFully(s.self, sub)
    IN  IF runs = <<>> THEN <<>>
        ELSE IF ~s.result.ok THEN <<-1>>
        ELSE r.call.buf
             \o Piecewise(r.self, Tail(runs),
                          wrapping_add(start,
                                       NtfsDataRun_allocated_size(Head(runs))))

\* C4: reading the whole value sequentially from a fresh reader yields the
\* same bytes as seeking to each run's starting offset in turn and reading
\* that run's part of the value, and this from whatever state the reader is
\* in when the seeks begin.
SequentialEqualsPiecewise ==
    pc = "idle"
        => Piecewise(value.value, Runs(value.value), Zero64)
              = Sequential(value.value)

\* A reader that has been moved, over two runs of which one is sparse, with
\* a data size that ends inside the second run.
SequentialEqualsPiecewiseWitness ==
    /\ pc = "idle"
    /\ stream_position(value.value) # Zero64
    /\ Len(Runs(value.value)) = 2
    /\ Len(Sequential(value.value)) = 3
    /\ Sequential(value.value)[3] = 0
    /\ Sequential(value.value)[1] # 0
    /\ Piecewise(value.value, Runs(value.value), Zero64)
          = Sequential(value.value)

\* The LCN of the reader's current Data Run: the one the decoder kept when
\* it yielded the run.
CurrentLcn(self) == self.stream_data_runs.state.previous_lcn

\* A pass of read's loop that transfers bytes from a current Data Run whose
\* LCN is 0.
SparsePass ==
    /\ pc = "reading"
    /\ value.value.stream_state.stream_data_run # <<>>
    /\ CurrentLcn(value.value) = Zero64
    /\ call'.bytes_read > call.bytes_read

\* C5: a run whose LCN is 0 is sparse: a read from it puts zeros into the
\* whole slice it serves (as much as the buffer, the data size and the run
\* leave), and does not touch the source.
SparseRunReadsZeros ==
    [][SparsePass =>
          LET run == value.value.stream_state.stream_data_run[1]
              k == MinLen(slice_len(call,
                                    remaining_data_size(value.value.stream_state)),
                          NtfsDataRun_remaining_len(run))
          IN  /\ call'.buf = call.buf \o Zeros(k)
              /\ call'.bytes_read = call.bytes_read + k
              /\ fs' = fs
              /\ NtfsDataRun_data_position(run) = <<>>]_vars

\* A read has filled its buffer from a sparse run after a run with data: the
\* second byte is zero, the first is not.
SparseRunReadsZerosWitness ==
    /\ ReadReturned
    /\ last.result = Ok(2)
    /\ call.buf[1] # 0
    /\ call.buf[2] = 0
    /\ CurrentLcn(value.value) = Zero64
    /\ value.value.stream_state.stream_data_run # <<>>
    /\ value.value.stream_state.stream_data_run[1].position = Zero64

(***************************************************************************)
(* Properties of the decoder (DecSpec).                                    *)
(***************************************************************************)

\* The header byte the last next() call found at the cursor, -1 when the
\* cursor was at the end of the buffer.
HeaderRead ==
    IF it_item.before.offset < Len(it.data)
    THEN it.data[it_item.before.offset + 1]
    ELSE -1

\* C6: once next() has returned the end, every later call returns the end;
\* and a call that reads a header byte of 0 returns the end and puts the
\* cursor at the end of the buffer, whatever bytes follow the marker.
EndIsPermanent ==
    /\ it_item.ended => it_item.item = ItemNone
    /\ (it_item.calls > 0 /\ HeaderRead = 0)
          => /\ it_item.item = ItemNone
             /\ it.state.offset = Len(it.data)
             /\ NtfsDataRuns_next(it).item = ItemNone

\* A run, then the end marker with a record after it: the call that read the
\* marker and the calls after it have all returned the end.
EndIsPermanentWitness ==
    /\ it.data = <<17, 1, 1, 0, 17, 1, 1>>
    /\ it_item.calls >= 3
    /\ it_item.ended
    /\ it_item.item = ItemNone
    /\ it_item.before.offset = Len(it.data)

\* C7 as stated: a next() call that returns a decode error leaves the cursor
\* (offset and previous LCN) as it was before the call, whatever the error.
DecodeErrorKeepsCursor ==
    it_item.item.tag = "Err" => it.state = it_item.before

(***************************************************************************)
(* Properties of the reader's seek and of read's loop (Spec).              *)
(***************************************************************************)

\* A step that is the seek call whose request and result `last` holds
\* after it.
SeekStep == pc = "idle" /\ last'.op = "seek" /\ Seek(last'.pos)

\* C8: a seek request whose target is negative or beyond the u64 range
\* fails with the invalid-seek error and leaves the reader as it was: stream
\* position, current run and decoder cursor.
InvalidSeekFails ==
    [][(SeekStep /\ SeekTarget(value.value, last'.pos) = <<>>)
          => /\ last'.result = InvalidSeek
             /\ value' = value]_vars

\* An invalid seek has failed on a reader that reads and seeks had moved to
\* the end of the u64 range, with a current run.
InvalidSeekFailsWitness ==
    /\ pc = "idle"
    /\ last.op = "seek"
    /\ last.pos = SeekFrom_Current(I64(1))
    /\ last.result = InvalidSeek
    /\ stream_position(value.value) = U64_MAX
    /\ value.value.stream_state.stream_data_run # <<>>
    /\ value.value.stream_data_runs.state.offset > 0

\* C9 as stated: every seek request with a target t in the u64 range
\* succeeds, returns t and leaves the stream position at t, also when t is
\* beyond len() and beyond what the runs allocate.
ValidSeekSucceeds ==
    [][(SeekStep /\ SeekTarget(value.value, last'.pos) # <<>>)
          => /\ last'.result = Ok(SeekTarget(value.value, last'.pos)[1])
             /\ stream_position(value'.value)
                   = SeekTarget(value.value, last'.pos)[1]]_vars

\* C9 amended: ... on a reader whose run list decodes without error.
ValidSeekSucceedsIfDecodes ==
    [][(/\ SeekStep
        /\ SeekTarget(value.value, last'.pos) # <<>>
        /\ Decodes(data_runs(value.value)))
          => /\ last'.result = Ok(SeekTarget(value.value, last'.pos)[1])
             /\ stream_position(value'.value)
                   = SeekTarget(value.value, last'.pos)[1]]_vars

\* A seek from the end has succeeded to a target beyond len() and beyond
\* what the two runs of the run list allocate.
ValidSeekSucceedsWitness ==
    /\ pc = "idle"
    /\ last.op = "seek"
    /\ last.pos.kind = "End"
    /\ last.result = Ok(U64(MaxPos))
    /\ stream_position(value.value) = U64(MaxPos)
    /\ Decodes(data_runs(value.value))
    /\ Len(Runs(value.value)) = 2
    /\ Lt(AllocatedTotal(value.value), U64(MaxPos))

\* C10 as stated: a read call ends after finitely many passes of its loop,
\* whatever the source does: it never makes MaxStall passes in a row that
\* leave the reader, the buffer and the count of bytes read as they were.
ReadLoopEnds == call.stalled < MaxStall

(***************************************************************************)
(* Properties settled after the read and seek contracts.                   *)
(***************************************************************************)

\* The cursor offset of the reader's own decoder.
CursorOffset(self) == self.stream_data_runs.state.offset

\* A read or a seek has been made on the reader and has returned.
Operated == value.ok /\ pc = "idle" /\ last.op \in {"read", "seek"}

\* C11 as stated: after any sequence of reads and seeks, the reader's
\* position() is the run-list buffer's absolute position plus the cursor offset
\* of the reader's own decoder.
PositionFollowsCursor ==
    Operated =>
        position(value.value)
            = wrapping_add(U64(RunListPosition), U64(CursorOffset(value.value)))

\* C11 as amended: after any sequence of reads and seeks, the reader's
\* position() is the run-list buffer's absolute position, however far the
\* reader's own decoder has advanced; the sum with the cursor offset is what
\* position() of that decoder returns.
PositionIsRunListPosition ==
    Operated =>
        /\ position(value.value) = U64(RunListPosition)
        /\ NtfsDataRuns_position(value.value.stream_data_runs)
               = wrapping_add(position(value.value),
                              U64(CursorOffset(value.value)))

\* A seek has walked the reader's decoder over more than one record.
PositionIsRunListPositionWitness ==
    /\ Operated
    /\ last.op = "seek"
    /\ last.result.ok
    /\ CursorOffset(value.value) > 3
    /\ position(value.value) = U64(RunListPosition)

(***************************************************************************)
(* The run list read record by record in unbounded integers.  A number is  *)
(* [h, l], standing for h * (2^63 - 1) + l with |l| below 2^25, so that    *)
(* sums and products by the cluster size never wrap.                        *)
(***************************************************************************)

Num(h, l) == [h |-> h, l |-> l]

NumAdd(a, b) == Num(a.h + b.h, a.l + b.l)

NumMul(c, a) == Num(c * a.h, c * a.l)

\* 0 <= a <= u64::MAX = 2 * (2^63 - 1) + 1
InU64(a) ==
    /\ a.h >= 0
    /\ ~(a.h = 0 /\ a.l < 0)
    /\ a.h < 2 \/ (a.h = 2 /\ a.l <= 1)

\* A natural number below 2^31 as a u64.
Wide64(n) ==
    <<n % 256, (n \div 256) % 256, (n \div 65536) % 256,
      (n \div 16777216) % 256, 0, 0, 0, 0>>

\* The u64 of a number in range.
ToU64(a) ==
    LET base == CASE a.h = 0 -> Zero64
                  [] a.h = 1 -> I64_MAX
                  [] a.h = 2 -> wrapping_add(I64_MAX, I64_MAX)
    IN  IF a.l >= 0 THEN wrapping_add(base, Wide64(a.l))
        ELSE wrapping_sub(base, Wide64(0 - a.l))

\* The number a u64 is: one that is near 0, near 2^63 - 1 or near 2^64 - 2.
Small64(u) == u[4] = 0 /\ u[5] = 0 /\ u[6] = 0 /\ u[7] = 0 /\ u[8] = 0

NumNear(u, base, h) ==
    IF Lt(u, base) THEN Num(h, 0 - Nat64(wrapping_sub(base, u)))
    ELSE Num(h, Nat64(wrapping_sub(u, base)))

FromU64(u) ==
    IF Small64(u) THEN Num(0, Nat64(u))
    ELSE IF Small64(wrapping_sub(u, I64_MAX)) \/ Small64(wrapping_sub(I64_MAX, u))
    THEN NumNear(u, I64_MAX, 1)
    ELSE NumNear(u, wrapping_add(I64_MAX, I64_MAX), 2)

\* The little-endian field of w bytes that starts after data[at], as a
\* number: unsigned, or signed in two's complement.
RefField(data, at, w, is_signed) ==
    LET pad(i) == IF i <= w THEN data[at + i]
                  ELSE IF is_signed /\ w > 0 /\ data[at + w] >= 128 THEN 255
                  ELSE 0
        low == pad(1) + 256 * pad(2) + 65536 * pad(3)
        upper == <<pad(4), pad(5), pad(6), pad(7), pad(8)>>
    IN  CASE upper = <<0, 0, 0, 0, 0>> -> Num(0, low)
          [] upper = <<255, 255, 255, 255, 255>> ->
                IF is_signed THEN Num(0, low - 16777216)
                ELSE Num(2, low + 2 - 16777216)
          [] upper = <<255, 255, 255, 255, 127>> -> Num(1, low + 1 - 16777216)
          [] upper = <<0, 0, 0, 0, 128>> ->
                IF is_signed THEN Num(-1, low - 1) ELSE Num(1, low + 1)

\* A whole record with fields of at most 8 bytes starts at offset off.
RefWellFormed(data, off) ==
    /\ off < Len(data)
    /\ data[off + 1] # 0
    /\ data[off + 1] % 16 <= MAX_BYTE_COUNT
    /\ data[off + 1] \div 16 <= MAX_BYTE_COUNT
    /\ off + 1 + (data[off + 1] % 16) + (data[off + 1] \div 16) <= Len(data)

\* What the record at offset off stands for when the LCN before it is prev:
\* a Data Run, or the error of the first number that leaves the u64 range.
RefOutcome(data, off, prev, c) ==
    LET cw == data[off + 1] % 16
        dw == data[off + 1] \div 16
        cluster_count == RefField(data, off + 1, cw, FALSE)
        lcn == NumAdd(prev, RefField(data, off + 1 + cw, dw, TRUE))
    IN  IF ~InU64(lcn) THEN [kind |-> "InvalidVcnInDataRunHeader"]
        ELSE IF ~InU64(NumMul(c, lcn)) THEN [kind |-> "LcnTooBig"]
        ELSE IF ~InU64(NumMul(c, cluster_count))
        THEN [kind |-> "InvalidClusterCount"]
        ELSE [kind |-> "Run", lcn |-> lcn, next |-> off + 1 + cw + dw,
              position |-> NumMul(c, lcn),
              allocated_size |-> NumMul(c, cluster_count)]

\* The cursor and the sum of the deltas after the first k records, when each
\* of them stands for a Data Run.
RECURSIVE RefWalk(_, _, _)
RefWalk(data, k, c) ==
    IF k = 0 THEN [ok |-> TRUE, off |-> 0, lcn |-> Num(0, 0)]
    ELSE LET after(p) ==
                 LET step(o) ==
                         IF o.kind = "Run"
                         THEN [ok |-> TRUE, off |-> o.next, lcn |-> o.lcn]
                         ELSE [ok |-> FALSE]
                 IN  IF p.ok /\ RefWellFormed(data, p.off)
                     THEN step(RefOutcome(data, p.off, p.lcn, c))
                     ELSE [ok |-> FALSE]
         IN  after(RefWalk(data, k - 1, c))

\* The item next() returned is what the record stands for.
Yields(item, o) ==
    IF o.kind = "Run"
    THEN /\ item.tag = "Ok"
         /\ item.run.position = ToU64(o.position)
         /\ item.run.allocated_size = ToU64(o.allocated_size)
         /\ item.run.stream_position = Zero64
    ELSE /\ item.tag = "Err"
         /\ item.err.kind = o.kind

\* The example of C12: [0x21, 0x10, 0x05, 0x00] with clusters of 512 bytes.
ExampleDecoder ==
    NtfsDataRuns_new([cluster_size |-> 512], <<33, 16, 5, 0>>,
                     U64(RunListPosition))

\* C12: the k-th run a decoder yields has the LCN that is the sum of the first
\* k signed deltas, its position is that LCN times the cluster size (0 for
\* LCN 0) and its allocated size is the cluster count times the cluster size;
\* an LCN sum or a product that leaves the u64 range is a decode error, never
\* a wrapped value.  The example yields one run (LCN 5, 8192 bytes), then the
\* end.
RunsAccumulateLcn ==
    /\ it_item.calls = 0 => it.state.previous_lcn = Zero64
    /\ it_item.calls > 0 =>
         /\ \A p \in {RefWalk(it.data, it_item.calls - 1, cluster_size(it.ntfs))} :
               p.ok /\ RefWellFormed(it.data, p.off) =>
                  \A o \in {RefOutcome(it.data, p.off, p.lcn,
                                       cluster_size(it.ntfs))} :
                     /\ Yields(it_item.item, o)
                     /\ o.kind = "Run" => it.state.previous_lcn = ToU64(o.lcn)
         /\ RefWellFormed(it.data, it_item.before.offset) =>
               \A o \in {RefOutcome(it.data, it_item.before.offset,
                                    FromU64(it_item.before.previous_lcn),
                                    cluster_size(it.ntfs))} :
                  /\ Yields(it_item.item, o)
                  /\ o.kind = "Run" => it.state.previous_lcn = ToU64(o.lcn)
    /\ \A n \in {NtfsDataRuns_next(ExampleDecoder)} :
          /\ n.item = ItemOk([position |-> U64(5 * 512),
                              allocated_size |-> U64(8192),
                              stream_position |-> Zero64])
          /\ n.self.state.previous_lcn = U64(5)
          /\ NtfsDataRuns_next(n.self).item = ItemNone

\* The third next() call has yielded the third run of a run list, whose LCN
\* is the sum of three deltas.
RunsAccumulateLcnWitness ==
    /\ it_item.calls = 3
    /\ it_item.item.tag = "Ok"
    /\ RefWalk(it.data, 3, cluster_size(it.ntfs)).ok
    /\ it.state.previous_lcn = U64(3)
    /\ it_item.item.run.position = U64(3 * cluster_size(it.ntfs))

\* The last next() call read a header with a width above MAX_BYTE_COUNT.
OversizedWidth ==
    /\ it_item.calls > 0
    /\ HeaderRead > 0
    /\ HeaderRead % 16 > MAX_BYTE_COUNT \/ HeaderRead \div 16 > MAX_BYTE_COUNT

OversizedWidthError ==
    /\ it_item.item.tag = "Err"
    /\ it_item.item.err.kind = "InvalidByteCountInDataRunHeader"

\* C13 as stated: a header whose low or high nibble is above 8 makes next()
\* return the oversized-width error, with no run yielded and the cursor left
\* where it was.
OversizedWidthRejected ==
    OversizedWidth => OversizedWidthError /\ it.state = it_item.before

\* C13 as amended: a header whose low nibble is above 8, or whose high nibble
\* is above 8 while the cluster count field of the low nibble's width lies
\* within the buffer, makes next() return the oversized-width error; when the
\* high nibble is above 8 and the buffer ends inside the cluster count field,
\* next() returns the read error of that field instead.  In each case no run
\* is yielded and the cursor is left where it was.
OversizedWidthRejectedAfterCount ==
    OversizedWidth =>
        /\ it.state = it_item.before
        /\ it_item.item.tag = "Err"
        /\ IF HeaderRead % 16 > MAX_BYTE_COUNT
              \/ it_item.before.offset + 1 + (HeaderRead % 16) <= Len(it.data)
           THEN /\ it_item.item.err.kind = "InvalidByteCountInDataRunHeader"
                /\ it_item.item.err.info[2]
                      = (IF HeaderRead % 16 > MAX_BYTE_COUNT
                         THEN HeaderRead % 16 ELSE HeaderRead \div 16)
           ELSE it_item.item.err = Err("Io", <<"UnexpectedEof">>).err

\* A header with a delta width of 9 and its cluster count byte in the buffer
\* has been refused.
OversizedWidthRejectedWitness ==
    /\ OversizedWidth
    /\ HeaderRead = 145
    /\ it_item.before.offset + 2 <= Len(it.data)
    /\ OversizedWidthError
    /\ it.state = it_item.before

\* C14: at any point in the reader's life data_runs() is a decoder at offset 0
\* with previous LCN 0 that yields the run sequence the run list had at
\* construction, however far the reader's own decoder has advanced; iterating
\* it moves its own cursor only, the reader's decoder stays where it was.
DataRunsStartsAfresh ==
    value.ok =>
        /\ NtfsDataRuns_into_state(data_runs(value.value))
              = [offset |-> 0, previous_lcn |-> Zero64]
        /\ RunsFrom(data_runs(value.value)) = RunsFrom(it)
        /\ Decodes(data_runs(value.value)) = Decodes(it)
        /\ NtfsDataRuns_position(data_runs(value.value)) = U64(RunListPosition)
        /\ \A n \in {NtfsDataRuns_next(data_runs(value.value))} :
              n.item.tag = "Ok" =>
                 /\ n.self.state.offset > 0
                 /\ n.self.data = value.value.stream_data_runs.data

\* The reader's own decoder has gone past its second record after a seek, and
\* data_runs() still yields both runs from the start.
DataRunsStartsAfreshWitness ==
    /\ Operated
    /\ CursorOffset(value.value) >= 6
    /\ Len(RunsFrom(data_runs(value.value))) >= 2
    /\ data_runs(value.value).state.offset = 0

\* What C15 says of one request made on the reader: the request is refused
\* or comes back as Start(n) or Current(n >= 0) with the same target, and a
\* target at or past the stream position, no more than i64::MAX away, comes
\* back as Current(target - stream_position).
NormalizedAs(self, pos, o, t) ==
    IF t = <<>> THEN ~o.ok
    ELSE /\ o.ok
         /\ o.value.kind \in {"Start", "Current"}
         /\ o.value.kind = "Start" => o.value.n = t[1]
         /\ o.value.kind = "Current" =>
               /\ NonNegative(o.value.n)
               /\ checked_add(stream_position(self), o.value.n) = t
         /\ (/\ Le(stream_position(self), t[1])
             /\ NonNegative(wrapping_sub(t[1], stream_position(self))))
               => o = Ok(SeekFrom_Current(wrapping_sub(t[1],
                                                       stream_position(self))))

Normalized(self, pos) ==
    NormalizedAs(self, pos,
                 optimize_seek(self.stream_state, pos, len(self)),
                 SeekTarget(self, pos))

\* The target of a request that comes back in the Start form, <<>> for one
\* that does not.
StartFormTarget(self, pos) ==
    LET from(o) == IF o.ok /\ o.value.kind = "Start" THEN <<o.value.n>> ELSE <<>>
    IN  from(optimize_seek(self.stream_state, pos, len(self)))

\* C15 as stated: every valid request is normalized as above, and the Start
\* form comes back only for targets below the current stream position.
SeekNormalized ==
    (value.ok /\ pc = "idle") =>
        \A pos \in SeekRequests :
            /\ Normalized(value.value, pos)
            /\ \A t \in {StartFormTarget(value.value, pos)} :
                  t # <<>> => Lt(t[1], stream_position(value.value))

\* C15 as amended: every valid request is normalized as above, and the Start
\* form comes back only for targets below the current stream position or more
\* than i64::MAX past it.
SeekNormalizedWithinI64 ==
    (value.ok /\ pc = "idle") =>
        \A pos \in SeekRequests :
            /\ Normalized(value.value, pos)
            /\ \A t \in {StartFormTarget(value.value, pos)} :
                  t # <<>> =>
                     \/ Lt(t[1], stream_position(value.value))
                     \/ ~NonNegative(wrapping_sub(t[1],
                                                  stream_position(value.value)))

\* The reader stands at offset 2 after a seek: a request for offset 3 comes
\* back relative, one for offset 1 from the start, one from the end for
\* offset 2 relative with distance 0.
SeekNormalizedWitness ==
    /\ Operated
    /\ last.op = "seek"
    /\ stream_position(value.value) = U64(2)
    /\ len(value.value) = U64(3)
    /\ optimize_seek(value.value.stream_state, SeekFrom_Start(U64(3)), U64(3))
          = Ok(SeekFrom_Current(U64(1)))
    /\ optimize_seek(value.value.stream_state, SeekFrom_Start(U64(1)), U64(3))
          = Ok(SeekFrom_Start(U64(1)))
    /\ optimize_seek(value.value.stream_state, SeekFrom_End(I64(-1)), U64(3))
          = Ok(SeekFrom_Current(Zero64))

\* A step that is a pass of read's loop; a step that is a seek call, whose
\* request `last` holds after it.
ReadPass == pc = "reading"

SeekCall == pc = "idle" /\ last'.op = "seek"

\* The seek call of this step asks for a target at or past the stream
\* position.
SeeksAhead ==
    /\ SeekCall
    /\ \A t \in {SeekTarget(value.value, last'.pos)} :
          t # <<>> /\ Le(stream_position(value.value), t[1])

\* The seek call of this step asks for a target below the stream position,
\* which optimize_seek returns in the Start form.
SeeksBack ==
    /\ SeekCall
    /\ StartFormTarget(value.value, last'.pos) # <<>>
    /\ \A t \in {SeekTarget(value.value, last'.pos)} :
          t # <<>> /\ Lt(t[1], stream_position(value.value))

CurrentRun(self) == self.stream_state.stream_data_run

\* C17: in every state reached through read and seek, the local position of
\* the reader's current Data Run, if it has one, is at most the run's
\* allocated size.
LocalPositionWithinRun ==
    value.ok =>
        \A run \in {CurrentRun(value.value)[i] : i \in DOMAIN CurrentRun(value.value)} :
            /\ Le(NtfsDataRun_stream_position(run), NtfsDataRun_allocated_size(run))
            /\ wrapping_add(NtfsDataRun_remaining_len(run),
                            NtfsDataRun_stream_position(run))
                  = NtfsDataRun_allocated_size(run)

\* A seek has been handed to the second Data Run and has left the reader
\* inside that run.
LocalPositionWithinRunWitness ==
    /\ Operated
    /\ CurrentRun(value.value) # <<>>
    /\ last.op = "seek"
    /\ last.result.ok
    /\ CurrentRun(value.value)[1].stream_position = U64(1)
    /\ CurrentRun(value.value)[1].allocated_size = U64(2)
    /\ CursorOffset(value.value) >= 6

\* The runs a fresh decoder yields until its cursor reaches offset off.
RECURSIVE RunsUpTo(_, _)
RunsUpTo(dec, off) ==
    LET step(n) == IF n.item.tag = "Ok"
                   THEN <<n.item.run>> \o RunsUpTo(n.self, off)
                   ELSE <<>>
    IN  IF dec.state.offset >= off THEN <<>>
        ELSE step(NtfsDataRuns_next(dec))

\* The runs the reader's decoder has yielded before the reader's current
\* run.
RunsBeforeCurrent(self) ==
    LET from(decoded) ==
            IF CurrentRun(self) = <<>> \/ decoded = <<>> THEN decoded
            ELSE SubSeq(decoded, 1, Len(decoded) - 1)
    IN  from(RunsUpTo(data_runs(self), CursorOffset(self)))

\* The local position of the reader's current run, 0 without one.
LocalPosition(self) ==
    IF CurrentRun(self) = <<>> THEN Zero64
    ELSE NtfsDataRun_stream_position(CurrentRun(self)[1])

\* The byte of the value at logical offset p: the byte of the volume at that
\* offset of the run that holds p, 0 in a sparse run, -1 past the last run.
RECURSIVE ByteAt(_, _)
ByteAt(runs, p) ==
    IF runs = <<>> THEN -1
    ELSE IF Lt(p, NtfsDataRun_allocated_size(Head(runs)))
    THEN IF Head(runs).position = Zero64 THEN 0
         ELSE Disk(wrapping_add(Head(runs).position, p))
    ELSE ByteAt(Tail(runs),
                wrapping_sub(p, NtfsDataRun_allocated_size(Head(runs))))

\* C18: when the data size is at most the allocated size of all runs and no
\* read or seek has failed, then whenever the stream position is below the
\* data size it is the allocated size of the runs decoded before the current
\* run plus the local position of the current run (0 without a current run),
\* and a read of one byte returns the byte of the value at the stream
\* position.
PositionConsistent ==
    (/\ value.ok
     /\ ~hist.failed
     /\ Le(len(value.value), AllocatedTotal(value.value))
     /\ Lt(stream_position(value.value), len(value.value)))
        => /\ wrapping_add(SumAllocated(RunsBeforeCurrent(value.value)),
                           LocalPosition(value.value))
                 = stream_position(value.value)
           /\ ReadFully(value.value, 1).call.buf
                 = <<ByteAt(Runs(value.value), stream_position(value.value))>>

\* After a seek the reader stands at offset 2 of a value of 3 bytes, at the
\* start of its second run.
PositionConsistentWitness ==
    /\ Operated
    /\ ~hist.failed
    /\ last.op = "seek"
    /\ Le(len(value.value), AllocatedTotal(value.value))
    /\ stream_position(value.value) = U64(2)
    /\ Lt(stream_position(value.value), len(value.value))
    /\ CursorOffset(value.value) >= 6
    /\ Len(RunsBeforeCurrent(value.value)) = 1

\* What new() has to leave behind when the first record stands for o.
ConstructedOver(o) ==
    IF o.kind = "Run"
    THEN /\ value.ok
         /\ CursorOffset(value.value) = o.next
         /\ CurrentRun(value.value)
               = <<[position |-> ToU64(o.position),
                    allocated_size |-> ToU64(o.allocated_size),
                    stream_position |-> Zero64]>>
         /\ data_position(value.value)
               = (IF o.lcn = Num(0, 0) THEN <<>> ELSE <<ToU64(o.position)>>)
    ELSE /\ ~value.ok
         /\ value.err.kind = o.kind

\* C19: right after new(), before any read or seek, the reader's decoder has
\* consumed exactly the first record and data_position() is the absolute byte
\* offset of the first run when that run is not sparse; it is None only when
\* the run list has no run or the first run is sparse; a decode error in the
\* first record makes new() fail.
FirstRunPulled ==
    last.op = "new" =>
        IF Len(it.data) = 0 \/ it.data[1] = 0
        THEN /\ value.ok
             /\ CurrentRun(value.value) = <<>>
             /\ data_position(value.value) = <<>>
             /\ CursorOffset(value.value) = Len(it.data)
        ELSE IF RefWellFormed(it.data, 0)
        THEN ConstructedOver(RefOutcome(it.data, 0, Num(0, 0),
                                        cluster_size(it.ntfs)))
        ELSE /\ ~value.ok
             /\ value.err.kind \in {"InvalidByteCountInDataRunHeader", "Io"}

\* A reader constructed over a run list whose first record is a run at LCN 1
\* and whose second record does not decode.
FirstRunPulledWitness ==
    /\ last.op = "new"
    /\ value.ok
    /\ it.data = <<17, 1, 1, 9>>
    /\ CursorOffset(value.value) = 3
    /\ data_position(value.value) = <<U64(cluster_size(it.ntfs))>>

\* C20: a seek that succeeds in taking the reader from a stream position
\* above 0 back to offset 0 leaves it with stream position 0 and with the
\* current run and the data_position() it had right after construction.
RewindRestoresConstruction ==
    [][(/\ value.ok
        /\ SeekCall
        /\ stream_position(value.value) # Zero64
        /\ last'.result = Ok(Zero64))
          => /\ stream_position(value.value)' = Zero64
             /\ CurrentRun(value.value)' = CurrentRun(Fresh(value.value))
             /\ data_position(value.value)' = data_position(Fresh(value.value))
      ]_vars

(***************************************************************************)
(* C21.  A seek is local to the reader.                                    *)
(***************************************************************************)

\* A seek call has just returned.
SeekReturned == pc = "idle" /\ last.op = "seek"

\* C21: a seek on the reader, whatever the request and whether it succeeds
\* or fails, over sparse and non-sparse runs alike, makes no read and no
\* seek on the external source; the decoder handed out by data_runs() and
\* the read bookkeeping are left alone as well.
SeekIsLocal ==
    /\ [](SeekReturned => fs = [touched |-> FALSE])
    /\ [][SeekCall => /\ fs' = [touched |-> FALSE]
                      /\ value'.ok
                      /\ value'.value.ntfs = value.value.ntfs
                      /\ value'.value.data = value.value.data
                      /\ value'.value.position = value.value.position
                      /\ len(value'.value) = len(value.value)
                      /\ it' = it]_vars

\* A seek from inside a run with real data, over the rest of it, into a
\* sparse run: the reader has moved, the source has not been used.
SeekIsLocalWitness ==
    /\ SeekReturned
    /\ value.value.data = <<17, 1, 1, 17, 1, 255>>
    /\ last.pos = SeekFrom_Current(U64(2))
    /\ last.result = Ok(U64(3))
    /\ CurrentRun(value.value) # <<>>
    /\ CurrentRun(value.value)[1].position = Zero64
    /\ CurrentRun(value.value)[1].stream_position = U64(1)
    /\ ~fs.touched

(***************************************************************************)
(* C22.  A decoder rebuilt from the state of another.                      *)
(***************************************************************************)

\* What the next k calls of next() on a decoder give: each item with the
\* position() the decoder reports after the call.
RECURSIVE Items(_, _)
Items(dec, k) ==
    LET from(n) ==
            <<[item |-> n.item, position |-> NtfsDataRuns_position(n.self)]>>
            \o Items(n.self, k - 1)
    IN  IF k = 0 THEN <<>> ELSE from(NtfsDataRuns_next(dec))

\* from_state over the same filesystem, buffer and position, with the state
\* into_state gives.
Resumed(dec) ==
    NtfsDataRuns_from_state(dec.ntfs, dec.data, dec.position,
                            NtfsDataRuns_into_state(dec))

\* The decoder as new() builds it over the buffer of another.
Anew(dec) == NtfsDataRuns_new(dec.ntfs, dec.data, dec.position)

\* C22: for a decoder that has taken any number of steps over a buffer,
\* from_state(same ntfs, same buffer, same position, into_state()) reports
\* the same position() and yields the same remaining runs and errors as
\* the decoder itself; they are what a decoder started anew yields after
\* as many steps as the first had taken, so no earlier run is parsed again.
ResumedDecoderAgrees ==
    /\ NtfsDataRuns_position(Resumed(it)) = NtfsDataRuns_position(it)
    /\ Items(Resumed(it), MaxNextCalls) = Items(it, MaxNextCalls)
    /\ SubSeq(Items(Anew(it), it_item.calls + MaxNextCalls),
              it_item.calls + 1, it_item.calls + MaxNextCalls)
          = Items(Resumed(it), MaxNextCalls)

\* A decoder one run into a buffer, with a run whose place depends on the
\* first, an error and then the end of the buffer still to come.
ResumedDecoderAgreesWitness ==
    /\ it_item.calls = 1
    /\ it.state.offset > 0
    /\ it.state.previous_lcn # Zero64
    /\ Items(it, 3)[1].item.tag = "Ok"
    /\ Items(it, 3)[2].item.tag = "Err"
    /\ Items(it, 3)[3].item.tag = "None"

(***************************************************************************)
(* The reading of one signed field, over buffers of MAX_BYTE_COUNT bytes.  *)
(***************************************************************************)

\* The bytes a buffer is made of: zero, both sides of the sign bit, all ones.
FieldBytes == {0, 127, 128, 255}

FieldBuffers == [1..MAX_BYTE_COUNT -> FieldBytes]

\* The byte counts a header nibble asks for in the checks below: every one
\* that is accepted and the first that is not.
FieldWidths == 0..(MAX_BYTE_COUNT + 1)

FieldInit ==
    \E c \in ClusterSizes, data \in FieldBuffers :
        Constructed([cluster_size |-> c], data, Zero64)

\* read_variable_length_signed_integer is called on the decoder, with the
\* cursor at the start of the buffer.
ReadSignedField(byte_count) ==
    /\ last.op = "new"
    /\ last' = [op |-> "read_signed", byte_count |-> byte_count,
                result |-> read_variable_length_signed_integer(
                               it, 0, byte_count)]
    /\ UNCHANGED <<value, fs, pc, call, hist, it, it_item>>

FieldNext == \E byte_count \in FieldWidths : ReadSignedField(byte_count)

FieldSpec == FieldInit /\ [][FieldNext]_vars

(***************************************************************************)
(* C23.  Signed fields are sign-extended.                                  *)
(***************************************************************************)

\* 256^w modulo 2^64.
Pow256(w) == [i \in 1..MAX_BYTE_COUNT |-> IF i = w + 1 THEN 1 ELSE 0]

\* The first w bytes of a buffer read little-endian as an unsigned integer.
UnsignedValue(buf, w) == [i \in 1..MAX_BYTE_COUNT |-> IF i <= w THEN buf[i] ELSE 0]

\* The top bit of the last of w bytes is set.
TopBitSet(buf, w) == w > 0 /\ buf[w] >= 128

\* The two's-complement value of the w-byte integer, modulo 2^64: the
\* unsigned value, less 256^w when the top bit is set.
TwosComplement(buf, w) ==
    IF TopBitSet(buf, w)
    THEN wrapping_sub(UnsignedValue(buf, w), Pow256(w))
    ELSE UnsignedValue(buf, w)

\* The same value as a number, for the widths whose values are small.
SmallValue(buf, w) ==
    LET byte(i) == IF i <= w THEN buf[i] ELSE 0
        unsigned == byte(1) + 256 * byte(2) + 65536 * byte(3)
    IN  IF TopBitSet(buf, w) THEN unsigned - 256 ^ w ELSE unsigned

\* A signed field of an accepted width has just been read.
SignedFieldRead ==
    last.op = "read_signed" /\ last.byte_count <= MAX_BYTE_COUNT

\* C23: for every width w in 0..8 and every w bytes read little-endian, the
\* result is the two's-complement value of that w-byte integer sign-extended
\* to 64 bits: it is negative exactly when the top bit of the last byte is
\* set, width 0 gives 0 and width 8 gives the 64-bit pattern as it is.
SignedFieldSignExtended ==
    SignedFieldRead =>
        /\ last.result.ok
        /\ last.result.value.cursor = last.byte_count
        /\ last.result.value.integer = TwosComplement(it.data, last.byte_count)
        /\ NonNegative(last.result.value.integer)
              <=> ~TopBitSet(it.data, last.byte_count)
        /\ last.byte_count <= 3 =>
              last.result.value.integer
                  = I64(SmallValue(it.data, last.byte_count))
        /\ last.byte_count = 0 => last.result.value.integer = Zero64
        /\ last.byte_count = MAX_BYTE_COUNT =>
              last.result.value.integer = it.data

\* Three bytes 0x80 0x00 0xff read as -65408.
SignedFieldSignExtendedWitness ==
    /\ SignedFieldRead
    /\ last.byte_count = 3
    /\ SubSeq(it.data, 1, 3) = <<128, 0, 255>>
    /\ last.result = Ok([integer |-> <<128, 0, 255, 255, 255, 255, 255, 255>>,
                          cursor |-> 3])

====
